---------------------------- MODULE Spec2Model ----------------------------
(***************************************************************************)
(* Model of the CleanArchitecture document loader                          *)
(* (src/src/preprocessing/clean_architecture_loader.py) and of the vector  *)
(* store upload (src/src/preprocessing/vector_db_manager.py,               *)
(* src/src/preprocessing/initialize_vector_db.py).                         *)
(*                                                                         *)
(* Text is modelled by TLA+ strings; Len, Head, Tail, SubSeq and \o are    *)
(* the sequence operators applied to strings.  Paths are POSIX paths and   *)
(* fnmatch is case-sensitive (os.path.normcase is the identity there).     *)
(***************************************************************************)
EXTENDS Integers, Sequences, FiniteSets, TLC

VARIABLES
    pc,               \* position of the running program
    \* ---- SimpleDirectoryLoader.load_documents -------------------------
    fs,               \* the directory tree: path -> [kind, chunks]
    include_patterns, \* argument of load_documents (None = default)
    exclude_patterns, \* argument of load_documents (None = default)
    files_to_process, \* result of get_files_to_process
    future,           \* task -> "pending" | "returned" | "raised"
    result,           \* task -> the documents process_file returned
    fault,            \* task -> the step of process_file that raised
    yielded,          \* tasks in the order as_completed yielded them
    all_documents,    \* the aggregated collection
    progress,         \* progress_bar.n
    log,              \* logger records [level, path]
    \* ---- identify_file_type / add_contextual_prefix -------------------
    file_name,        \* argument of identify_file_type
    file_type_out,    \* its return value
    content_in,       \* argument of add_contextual_prefix
    metadata_in,      \* argument of add_contextual_prefix
    metadata_after,   \* the metadata object after the call
    prefixed_out,     \* its return value
    \* ---- export_documents ----------------------------------------------
    export_docs,      \* the in-memory collection of chunk-documents
    file_json,        \* text of the file written with format 'json', or None
    file_jsonl,       \* text of the file written with format 'jsonl', or None
    \* ---- chunk_content -------------------------------------------------
    chunk_text_in,    \* argument content
    max_tokens,       \* argument max_tokens
    overlap_tokens,   \* argument overlap_tokens
    chunks_out,       \* the chunks returned
    \* ---- initialize_vector_db.load_documents --------------------------
    env,              \* [endpoint, api_key]: the two environment variables
    recreate,         \* the --recreate flag
    json_docs,        \* the documents of the JSON file
    embeddings_client,\* VectorDBManager.embeddings_client
    collection,       \* does the collection exist in the vector store
    delete_outcome,   \* how delete_collection ended in initialize_collection
    net_calls,        \* the network calls issued so far, in order
    uploaded,         \* number of documents upserted
    raised            \* the exception that left the run, or None

loadVars   == <<fs, include_patterns, exclude_patterns, files_to_process, future,
                result, fault, yielded, all_documents, progress, log>>
exportVars == <<export_docs, file_json, file_jsonl>>
splitVars  == <<chunk_text_in, max_tokens, overlap_tokens, chunks_out>>
fnVars     == <<file_name, file_type_out, content_in, metadata_in, metadata_after,
                prefixed_out, exportVars, splitVars>>
uploadVars == <<env, recreate, json_docs, embeddings_client, collection,
                delete_outcome, net_calls, uploaded, raised>>
vars       == <<pc, loadVars, fnVars, uploadVars>>

None == "None"

-----------------------------------------------------------------------------
(* Strings *)

\* str.endswith / "x in s"
Contains(s, sub) ==
    \E i \in 0..(Len(s) - Len(sub)) : SubSeq(s, i + 1, i + Len(sub)) = sub

IsSuffix(suf, s) ==
    /\ Len(suf) <= Len(s)
    /\ SubSeq(s, Len(s) - Len(suf) + 1, Len(s)) = suf

\* fnmatch.fnmatch(name, pat) on POSIX: '*' matches any run of characters,
\* '?' any one character, every other character itself.
RECURSIVE fnmatch(_, _)
fnmatch(name, pat) ==
    IF pat = "" THEN name = ""
    ELSE IF Head(pat) = "*"
         THEN \E k \in 0..Len(name) :
                  fnmatch(SubSeq(name, k + 1, Len(name)), Tail(pat))
         ELSE /\ name # ""
              /\ (Head(pat) = "?" \/ Head(pat) = Head(name))
              /\ fnmatch(Tail(name), Tail(pat))

\* Path.name: the last component of a POSIX path
RECURSIVE PathName(_)
PathName(path) ==
    IF \E i \in 1..Len(path) : SubSeq(path, i, i) = "/"
    THEN LET i == CHOOSE j \in 1..Len(path) : SubSeq(path, j, j) = "/"
         IN  PathName(SubSeq(path, i + 1, Len(path)))
    ELSE path

\* Path.parts of an absolute POSIX path, the root "/" left out
RECURSIVE PathParts(_)
PathParts(path) ==
    IF path = "" THEN <<>>
    ELSE IF Head(path) = "/" THEN PathParts(Tail(path))
    ELSE IF \E i \in 1..Len(path) : SubSeq(path, i, i) = "/"
         THEN LET i == CHOOSE j \in 1..Len(path) :
                          /\ SubSeq(path, j, j) = "/"
                          /\ \A k \in 1..(j - 1) : SubSeq(path, k, k) # "/"
              IN  <<SubSeq(path, 1, i - 1)>> \o PathParts(SubSeq(path, i + 1, Len(path)))
         ELSE <<path>>

\* sep.join(parts)
RECURSIVE Join(_, _)
Join(sep, parts) ==
    IF parts = <<>> THEN ""
    ELSE IF Len(parts) = 1 THEN parts[1]
    ELSE parts[1] \o sep \o Join(sep, Tail(parts))

-----------------------------------------------------------------------------
(* File Classifier *)

\* the dict, in its declaration (= iteration) order
FILE_TYPE_PATTERNS == <<
    [type |-> "csharp",        patterns |-> <<"*.cs">>],
    [type |-> "project",       patterns |-> <<"*.csproj", "*.sln">>],
    [type |-> "config",        patterns |-> <<"*.json", "*.xml", "*.yml", "*.yaml",
                                              "appsettings*.json">>],
    [type |-> "documentation", patterns |-> <<"*.md", "*.rst", "*.txt">>],
    [type |-> "web",           patterns |-> <<"*.html", "*.css", "*.js", "*.ts">>],
    [type |-> "test",          patterns |-> <<"*test*.cs", "*Test*.cs", "*Tests*.cs">>],
    [type |-> "migration",     patterns |-> <<"*Migration*.cs", "*migration*.cs">>] >>

AnyMatch(name, patterns) ==
    \E k \in 1..Len(patterns) : fnmatch(name, patterns[k])

\* the loop of identify_file_type from the i-th entry of `table` on
RECURSIVE TypeFrom(_, _, _)
TypeFrom(table, name, i) ==
    IF i > Len(table) THEN "other"
    ELSE IF AnyMatch(name, table[i].patterns) THEN table[i].type
    ELSE TypeFrom(table, name, i + 1)

ReversedTable == [i \in 1..Len(FILE_TYPE_PATTERNS) |->
                     FILE_TYPE_PATTERNS[Len(FILE_TYPE_PATTERNS) + 1 - i]]

identify_file_type_LastWins(name) == TypeFrom(ReversedTable, name, 1)

identify_file_type(name) == TypeFrom(FILE_TYPE_PATTERNS, name, 1)

-----------------------------------------------------------------------------
(* The directory tree and the text splitter *)

MaxChunks == 2

\* the files under base_path, in the order rglob walks them
Tree == << "/CleanArchitecture-main/README.md",
           "/CleanArchitecture-main/src/Foo.cs",
           "/CleanArchitecture-main/bin/Gen.cs" >>

TreeSet == {Tree[i] : i \in 1..Len(Tree)}

TextOf(path) == "text of " \o PathName(path)

\* what RecursiveCharacterTextSplitter.split_text may return: any number of
\* chunks (none for a text of separators only); the tree holds texts of no
\* chunk, of one chunk and of MaxChunks chunks
ChunkCounts == {0, 1, MaxChunks}

ChunksOf(n) == [k \in 1..n |-> "chunk" \o ToString(k)]

FileStates ==
    {[kind |-> "unreadable", content |-> None, chunks |-> <<>>],
     [kind |-> "empty", content |-> "", chunks |-> <<>>]}

TextStates(path) ==
    {[kind |-> "text", content |-> TextOf(path), chunks |-> ChunksOf(n)] :
        n \in ChunkCounts}

\* text_splitter.split_text(content)
split_text(content) ==
    LET p == CHOOSE q \in DOMAIN fs : fs[q].content = content
    IN  fs[p].chunks

\* len(self.tokenizer.encode(content)): the tokenizer is an external
\* library; one token per character stands for it
token_count(content) == Len(content)

-----------------------------------------------------------------------------
(* Metadata Builder, Contextual Prefix Builder *)

\* lines 96-106: the path from the first part that holds the marker on,
\* joined with backslashes, or the whole path when no part holds it
source_path(file_path) ==
    LET parts  == PathParts(file_path)
        marked == {i \in 1..Len(parts) : Contains(parts[i], "CleanArchitecture")}
    IN  IF marked # {}
        THEN LET i == CHOOSE j \in marked : \A k \in marked : j <= k
             IN  Join("\\", SubSeq(parts, i, Len(parts)))
        ELSE file_path

create_enhanced_metadata_DefaultTotal(file_path, content, chunk_index, total_chunks) ==
    [source       |-> source_path(file_path),
     file_type    |-> identify_file_type(PathName(file_path)),
     token_count  |-> token_count(content),
     chunk_index  |-> chunk_index,
     total_chunks |-> 1]

create_enhanced_metadata(file_path, content, chunk_index, total_chunks) ==
    [source       |-> source_path(file_path),
     file_type    |-> identify_file_type(PathName(file_path)),
     token_count  |-> token_count(content),
     chunk_index  |-> chunk_index,
     total_chunks |-> total_chunks]

\* context_parts of add_contextual_prefix
context_parts(metadata) ==
    << "File: " \o PathName(metadata.source),
       "Type: " \o metadata.file_type >>
    \o (IF metadata.total_chunks > 1
        THEN << "Part " \o ToString(metadata.chunk_index + 1)
                \o " of " \o ToString(metadata.total_chunks) >>
        ELSE <<>>)

\* the f-string of line 141 ends in the four characters \ n \ n
add_contextual_prefix(content, metadata) ==
    "[" \o Join(" | ", context_parts(metadata)) \o "]\\n\\n" \o content

-----------------------------------------------------------------------------
(* File Processor *)

Record(level, path) == [level |-> level, path |-> path]

load_file_content_LogsError(file_path) ==
    IF fs[file_path].kind = "unreadable"
    THEN [content |-> None, logs |-> {Record("ERROR", file_path)}]
    ELSE [content |-> fs[file_path].content, logs |-> {}]

\* open() raises for an unreadable file: a warning is logged, None returned
load_file_content(file_path) ==
    IF fs[file_path].kind = "unreadable"
    THEN [content |-> None, logs |-> {Record("WARNING", file_path)}]
    ELSE [content |-> fs[file_path].content, logs |-> {}]

\* chunk_content(content)
chunk_content(content) == split_text(content)

\* the documents the loop of lines 155-167 builds from `chunks`
Documents(file_path, chunks) ==
    [i \in 1..Len(chunks) |->
        LET metadata == create_enhanced_metadata(file_path, chunks[i], i - 1, Len(chunks))
        IN  [page_content |-> add_contextual_prefix(chunks[i], metadata),
             metadata     |-> metadata]]

Steps == {"split", "metadata", "prefix"}

\* the steps of process_file that run for this file, hence may raise
StepsReached(file_path) ==
    LET loaded == load_file_content(file_path)
    IN  IF loaded.content = None \/ loaded.content = "" THEN {}
        ELSE IF chunk_content(loaded.content) = <<>> THEN {"split"}
        ELSE Steps

\* process_file without its try/except: the exception leaves the task
process_file_NoCatch(file_path, raises) ==
    LET loaded == load_file_content(file_path)
    IN  IF loaded.content = None \/ loaded.content = ""
        THEN [docs |-> <<>>, logs |-> loaded.logs, raised |-> FALSE]
        ELSE IF raises \in Steps
        THEN [docs |-> <<>>, logs |-> loaded.logs, raised |-> TRUE]
        ELSE [docs |-> Documents(file_path, chunk_content(loaded.content)),
              logs |-> loaded.logs, raised |-> FALSE]

\* process_file(file_path); `raises` is the step that raises, or None
process_file(file_path, raises) ==
    LET loaded == load_file_content(file_path)
    IN  IF loaded.content = None \/ loaded.content = ""
        THEN [docs |-> <<>>, logs |-> loaded.logs, raised |-> FALSE]
        ELSE IF raises \in Steps
        THEN [docs |-> <<>>,
              logs |-> loaded.logs \cup {Record("ERROR", file_path)},
              raised |-> FALSE]
        ELSE [docs |-> Documents(file_path, chunk_content(loaded.content)),
              logs |-> loaded.logs, raised |-> FALSE]

-----------------------------------------------------------------------------
(* Repository Walker *)

DefaultInclude == <<"*.cs", "*.md", "*.json", "*.xml", "*.txt", "*.csproj", "*.sln">>

DefaultExclude == <<"**/bin/**", "**/obj/**", "**/.git/**", "**/packages/**",
                    "**/node_modules/**", "**/.vs/**", "**/wwwroot/lib/**">>

\* an optional argument: Python's None, or a list of patterns
NoPatterns == [given |-> FALSE, value |-> <<>>]
Patterns(list) == [given |-> TRUE, value |-> list]

\* the (include_patterns, exclude_patterns) arguments tried
PatternArgs ==
    { <<NoPatterns, NoPatterns>>,
      <<Patterns(<<"*.cs">>), Patterns(<<>>)>>,
      <<Patterns(<<"*.md", "README*">>), NoPatterns>>,
      <<Patterns(<<"*.cs", "*.md", "*Foo*">>), Patterns(<<"*Gen*">>)>> }

\* self.base_path.rglob(pattern) for a pattern without a separator
rglob(pattern) == SelectSeq(Tree, LAMBDA path : fnmatch(PathName(path), pattern))

\* lines 186-188: all_files.extend(rglob(pattern)) for each pattern in turn
RECURSIVE all_files(_)
all_files(patterns) ==
    IF patterns = <<>> THEN <<>>
    ELSE rglob(Head(patterns)) \o all_files(Tail(patterns))

should_exclude(file_path_str, patterns) ==
    \E k \in 1..Len(patterns) : fnmatch(file_path_str, patterns[k])

get_files_to_process(inc, exc) ==
    LET include == IF ~inc.given THEN DefaultInclude ELSE inc.value
        exclude == IF ~exc.given THEN DefaultExclude ELSE exc.value
    IN  SelectSeq(all_files(include), LAMBDA path : ~should_exclude(path, exclude))

-----------------------------------------------------------------------------
(* Concurrent Orchestrator: load_documents with show_progress = True *)

Tasks == 1..Len(files_to_process)

extend_Overwrite(documents, more) == more

\* all_documents.extend(documents)
extend(documents, more) == documents \o more

update_Skip(n) == n

\* progress_bar.update(1)
update(n) == n + 1

InitExportIdle ==
    /\ export_docs = <<>> /\ file_json = None /\ file_jsonl = None

InitSplitIdle ==
    /\ chunk_text_in = "" /\ max_tokens = 0 /\ overlap_tokens = 0
    /\ chunks_out = <<>>

InitFn ==
    /\ InitExportIdle /\ InitSplitIdle
    /\ file_name = None /\ file_type_out = None
    /\ content_in = None /\ metadata_in = None /\ metadata_after = None
    /\ prefixed_out = None

InitUpload ==
    /\ env = None /\ recreate = FALSE /\ json_docs = <<>>
    /\ embeddings_client = None /\ collection = FALSE /\ delete_outcome = None
    /\ net_calls = <<>> /\ uploaded = 0 /\ raised = None

InitLoadIdle ==
    /\ fs = <<>> /\ include_patterns = NoPatterns /\ exclude_patterns = NoPatterns
    /\ files_to_process = <<>> /\ future = <<>> /\ result = <<>> /\ fault = <<>>
    /\ yielded = <<>> /\ all_documents = <<>> /\ progress = 0 /\ log = {}

InitLoad ==
    /\ pc = "load_start"
    /\ fs \in [TreeSet -> FileStates \cup UNION {TextStates(path) : path \in TreeSet}]
    /\ \A path \in TreeSet : fs[path].kind = "text" => fs[path] \in TextStates(path)
    /\ \E args \in PatternArgs :
          /\ include_patterns = args[1]
          /\ exclude_patterns = args[2]
    /\ files_to_process = <<>> /\ future = <<>> /\ result = <<>> /\ fault = <<>>
    /\ yielded = <<>> /\ all_documents = <<>> /\ progress = 0 /\ log = {}
    /\ InitFn /\ InitUpload

\* lines 210-222: enumerate the files, create the progress bar, submit one
\* task per entry of files_to_process
Submit ==
    /\ pc = "load_start"
    /\ files_to_process' = get_files_to_process(include_patterns, exclude_patterns)
    /\ future' = [t \in 1..Len(files_to_process') |-> "pending"]
    /\ result' = [t \in 1..Len(files_to_process') |-> <<>>]
    /\ fault' = [t \in 1..Len(files_to_process') |-> None]
    /\ progress' = 0
    /\ pc' = "as_completed"
    /\ UNCHANGED <<fs, include_patterns, exclude_patterns, yielded, all_documents,
                   log, fnVars, uploadVars>>

\* a pool worker runs process_file for task t to its end
RunTask(t) ==
    /\ pc = "as_completed"
    /\ future[t] = "pending"
    /\ \E raises \in {None} \cup StepsReached(files_to_process[t]) :
          LET out == process_file(files_to_process[t], raises)
          IN  /\ future' = [future EXCEPT ![t] = IF out.raised THEN "raised"
                                                ELSE "returned"]
              /\ result' = [result EXCEPT ![t] = out.docs]
              /\ fault' = [fault EXCEPT ![t] = raises]
              /\ log' = log \cup out.logs
    /\ UNCHANGED <<pc, fs, include_patterns, exclude_patterns, files_to_process,
                   yielded, all_documents, progress, fnVars, uploadVars>>

Yielded == {yielded[i] : i \in 1..Len(yielded)}

\* lines 224-240: as_completed yields a finished future; the loop body runs
Collect(t) ==
    /\ pc = "as_completed"
    /\ future[t] \in {"returned", "raised"}
    /\ t \notin Yielded
    /\ yielded' = Append(yielded, t)
    /\ IF future[t] = "returned"
       THEN /\ all_documents' = extend(all_documents, result[t])
            /\ progress' = update(progress)
            /\ log' = log
       ELSE /\ log' = log \cup {Record("ERROR", files_to_process[t])}
            /\ progress' = update(progress)
            /\ all_documents' = all_documents
    /\ UNCHANGED <<pc, fs, include_patterns, exclude_patterns, files_to_process,
                   future, result, fault, fnVars, uploadVars>>

\* lines 242-246: every future was yielded; load_documents returns
Return ==
    /\ pc = "as_completed"
    /\ Len(yielded) = Len(files_to_process)
    /\ pc' = "load_done"
    /\ UNCHANGED <<loadVars, fnVars, uploadVars>>

NextLoad ==
    \/ Submit
    \/ \E t \in Tasks : RunTask(t)
    \/ \E t \in Tasks : Collect(t)
    \/ Return

SpecLoad == InitLoad /\ [][NextLoad]_vars

-----------------------------------------------------------------------------
(* Properties of load_documents, checked under SpecLoad *)

KindOf(t) == fs[files_to_process[t]].kind

\* the task's file fails: it cannot be read, or a later step raised
Failing(t) == KindOf(t) = "unreadable" \/ fault[t] \in Steps

\* the chunk-documents of the file of a task that does not fail
ExpectedDocs(t) ==
    IF Failing(t) \/ KindOf(t) # "text" THEN <<>>
    ELSE Documents(files_to_process[t], fs[files_to_process[t]].chunks)

CountIn(seq, d) == Cardinality({i \in DOMAIN seq : seq[i] = d})

Range(seq) == {seq[i] : i \in DOMAIN seq}

\* C1: every file whose processing raises (at the read, the split, the
\* metadata or the prefix step) makes process_file return an empty list, no
\* task ends with an exception, and load_documents returns exactly the
\* chunk-documents of the files that did not fail, each as often as submitted.
C1_FailureIsolation ==
    /\ \A t \in Tasks :
          future[t] # "pending" /\ Failing(t) =>
              future[t] = "returned" /\ result[t] = <<>>
    /\ \A t \in Tasks : future[t] # "raised"
    /\ pc = "load_done" =>
          LET expected == [t \in Tasks |-> ExpectedDocs(t)]
          IN  \A d \in Range(all_documents) \cup UNION {Range(expected[t]) : t \in Tasks} :
                  CountIn(all_documents, d) =
                      Cardinality({pair \in Tasks \X (1..(MaxChunks + 1)) :
                                      /\ pair[2] \in DOMAIN expected[pair[1]]
                                      /\ expected[pair[1]][pair[2]] = d})

C1_Witness ==
    /\ pc = "load_done"
    /\ \E t \in Tasks : fault[t] \in Steps
    /\ \E t \in Tasks : KindOf(t) = "unreadable"
    /\ \E t \in Tasks : ~Failing(t) /\ result[t] # <<>>
    /\ all_documents # <<>>

\* the results of the yielded tasks, in the order they were yielded
RECURSIVE Gathered(_)
Gathered(order) ==
    IF order = <<>> THEN <<>>
    ELSE Gathered(SubSeq(order, 1, Len(order) - 1))
         \o (IF future[order[Len(order)]] = "returned"
             THEN result[order[Len(order)]] ELSE <<>>)

SourceOf(path) == source_path(path)

SubmittedOnce(source) ==
    Cardinality({t \in Tasks : SourceOf(files_to_process[t]) = source}) = 1

C3_ChunkIndexAndTotal ==
    /\ \A t \in Tasks :
          \A i \in DOMAIN result[t] :
              /\ result[t][i].metadata.chunk_index = i - 1
              /\ result[t][i].metadata.total_chunks = Len(result[t])
    /\ \A i \in DOMAIN all_documents :
          all_documents[i].metadata.chunk_index < all_documents[i].metadata.total_chunks

C3_Witness ==
    /\ \E t \in Tasks : Len(result[t]) >= 2
    /\ \E t \in Tasks : Len(result[t]) = 1
    /\ Len(all_documents) >= 3

\* a file is eligible iff its name matches an include pattern and its path
\* matches no exclude pattern
Eligible(path) ==
    LET include == IF include_patterns.given THEN include_patterns.value
                   ELSE DefaultInclude
        exclude == IF exclude_patterns.given THEN exclude_patterns.value
                   ELSE DefaultExclude
    IN  /\ \E k \in 1..Len(include) : fnmatch(PathName(path), include[k])
        /\ \A k \in 1..Len(exclude) : ~fnmatch(path, exclude[k])

\* C5: load_documents submits exactly one process_file invocation per
\* eligible file and none for any other file.
C5_OneSubmissionPerEligibleFile ==
    pc # "load_start" =>
        \A path \in TreeSet :
            Cardinality({t \in Tasks : files_to_process[t] = path})
                = IF Eligible(path) THEN 1 ELSE 0

\* C6: the processed-files counter never decreases, increases by exactly 1
\* with every future the completion loop handles and not otherwise, and
\* equals the number of submitted files when load_documents returns.
C6_ProgressCounter ==
    /\ [][ /\ progress' >= progress
           /\ Len(yielded') = Len(yielded) + 1 => progress' = progress + 1
           /\ Len(yielded') = Len(yielded) => progress' = progress ]_vars
    /\ [](pc = "load_done" => progress = Len(files_to_process))

C6_Witness ==
    /\ pc = "load_done"
    /\ progress = 3
    /\ \E t \in Tasks : fault[t] \in Steps
    /\ \E t \in Tasks : result[t] # <<>>

\* C9 as stated: an empty or unreadable file makes process_file return no
\* document, raise nothing and log a warning, and no error, for that file.
C9_WarningForEmptyOrUnreadable ==
    \A t \in Tasks :
        future[t] # "pending" /\ KindOf(t) \in {"empty", "unreadable"} =>
            /\ future[t] = "returned"
            /\ result[t] = <<>>
            /\ Record("WARNING", files_to_process[t]) \in log
            /\ Record("ERROR", files_to_process[t]) \notin log

\* C9 as amended: an empty or unreadable file makes process_file return no
\* document and raise nothing, no error is logged for it, and a warning is
\* logged exactly when the file could not be read; an empty file is skipped
\* without any log record.
C9_WarningOnlyForUnreadable ==
    \A t \in Tasks :
        future[t] # "pending" /\ KindOf(t) \in {"empty", "unreadable"} =>
            /\ future[t] = "returned"
            /\ result[t] = <<>>
            /\ Record("ERROR", files_to_process[t]) \notin log
            /\ Record("WARNING", files_to_process[t]) \in log
                   <=> KindOf(t) = "unreadable"

C9_Witness ==
    /\ \E t \in Tasks : future[t] = "returned" /\ KindOf(t) = "empty"
    /\ \E t \in Tasks : future[t] = "returned" /\ KindOf(t) = "unreadable"

-----------------------------------------------------------------------------
(* identify_file_type on its own *)

Stems == {"a", "Foo", "FooTest", "FooTests", "test_a", "AddMigration",
          "migration1", "appsettings", "appsettings.Dev", "x.cs", "", "README"}

Extensions == {".cs", ".csproj", ".sln", ".json", ".xml", ".yml", ".yaml", ".md",
               ".rst", ".txt", ".html", ".css", ".js", ".ts", ".py", ".CS", ""}

FileNames == {stem \o ext : stem \in Stems, ext \in Extensions}

InitClassify ==
    /\ pc = "classify_start"
    /\ file_name \in FileNames
    /\ file_type_out = None
    /\ content_in = None /\ metadata_in = None /\ metadata_after = None
    /\ prefixed_out = None
    /\ InitExportIdle /\ InitSplitIdle
    /\ InitLoadIdle /\ InitUpload

Classify ==
    /\ pc = "classify_start"
    /\ file_type_out' = identify_file_type(file_name)
    /\ pc' = "classify_done"
    /\ UNCHANGED <<file_name, content_in, metadata_in, metadata_after, prefixed_out,
                   exportVars, splitVars, loadVars, uploadVars>>

SpecClassify == InitClassify /\ [][Classify]_vars

Categories == {"csharp", "project", "config", "documentation", "web", "test",
               "migration", "other"}

CategoryMatches(i, name) ==
    \E k \in 1..Len(FILE_TYPE_PATTERNS[i].patterns) :
        fnmatch(name, FILE_TYPE_PATTERNS[i].patterns[k])

\* C7: identify_file_type returns one category of the fixed set: the first
\* category, in declaration order, one of whose patterns matches the name,
\* and 'other' exactly when no pattern of any category matches.
C7_FirstMatchingCategory ==
    pc = "classify_done" =>
        /\ file_type_out \in Categories
        /\ file_type_out = "other"
              <=> \A i \in 1..Len(FILE_TYPE_PATTERNS) : ~CategoryMatches(i, file_name)
        /\ file_type_out # "other" =>
              \E i \in 1..Len(FILE_TYPE_PATTERNS) :
                  /\ FILE_TYPE_PATTERNS[i].type = file_type_out
                  /\ CategoryMatches(i, file_name)
                  /\ \A j \in 1..(i - 1) : ~CategoryMatches(j, file_name)

\* a name that patterns of two categories match
C7_Witness ==
    /\ pc = "classify_done"
    /\ Cardinality({i \in 1..Len(FILE_TYPE_PATTERNS) : CategoryMatches(i, file_name)}) >= 2
    /\ file_type_out = "csharp"

-----------------------------------------------------------------------------
(* add_contextual_prefix on its own *)

PrefixContents == {"", "x", "class Foo {}", "line1\nline2"}

PrefixMetadata ==
    { [source |-> src, file_type |-> ft, token_count |-> 3,
       chunk_index |-> part[1], total_chunks |-> part[2]] :
        src \in {"CleanArchitecture-main\\src\\Foo.cs", "/repo/README.md", "a.json"},
        ft \in {"csharp", "documentation", "other"},
        part \in {<<0, 1>>, <<0, 2>>, <<1, 2>>, <<2, 3>>} }

InitPrefix ==
    /\ pc = "prefix_start"
    /\ content_in \in PrefixContents
    /\ metadata_in \in PrefixMetadata
    /\ metadata_after = metadata_in
    /\ prefixed_out = None
    /\ file_name = None /\ file_type_out = None
    /\ InitExportIdle /\ InitSplitIdle
    /\ InitLoadIdle /\ InitUpload

\* the call; nothing in add_contextual_prefix assigns to metadata
Prefix ==
    /\ pc = "prefix_start"
    /\ prefixed_out' = add_contextual_prefix(content_in, metadata_in)
    /\ metadata_after' = metadata_in
    /\ pc' = "prefix_done"
    /\ UNCHANGED <<file_name, file_type_out, content_in, metadata_in, exportVars,
                   splitVars, loadVars, uploadVars>>

SpecPrefix == InitPrefix /\ [][Prefix]_vars

\* C8: add_contextual_prefix returns the bracketed descriptor (fields joined
\* with ' | ' inside '[' and ']'), then two newline characters, then the chunk
\* text unchanged; the text is a suffix of the result and the metadata is not
\* modified.
C8_DescriptorBlankLineText ==
    pc = "prefix_done" =>
        /\ prefixed_out = "[" \o Join(" | ", context_parts(metadata_in)) \o "]"
                          \o "\n\n" \o content_in
        /\ IsSuffix(content_in, prefixed_out)
        /\ metadata_after = metadata_in

-----------------------------------------------------------------------------
(* Vector store upload: initialize_vector_db.load_documents *)

MaxDocs == 2

\* os.getenv: None when the variable is not set, else its value
EndpointValues == {None, "", "https://embeddings.example"}
ApiKeyValues   == {None, "", "secret"}

\* `not value` of Python for an optional string
Falsy(value) == value = None \/ value = ""

\* _initialize_embeddings_client(): None when a credential is missing
initialize_embeddings_client(environment) ==
    IF Falsy(environment.endpoint) \/ Falsy(environment.api_key)
    THEN None
    ELSE "AzureOpenAI"

InitUploadRun ==
    /\ pc = "upload_start"
    /\ env \in [endpoint : EndpointValues, api_key : ApiKeyValues]
    /\ recreate \in BOOLEAN
    /\ json_docs \in {[i \in 1..n |-> i] : n \in 0..MaxDocs}
    /\ collection \in BOOLEAN
    /\ embeddings_client = None /\ delete_outcome = None
    /\ net_calls = <<>> /\ uploaded = 0 /\ raised = None
    /\ InitLoadIdle /\ InitFn

\* initialize_vector_db.py lines 9-13: VectorDBManager(...) builds the two
\* clients without a network call, then the recreate branch is chosen
Construct ==
    /\ pc = "upload_start"
    /\ embeddings_client' = initialize_embeddings_client(env)
    /\ pc' = IF recreate THEN "initialize_collection" ELSE "upload_loop"
    /\ UNCHANGED <<env, recreate, json_docs, collection, delete_outcome, net_calls,
                   uploaded, raised, loadVars, fnVars>>

\* how client.delete_collection may end: the collection is deleted, or the
\* server answers that it does not exist (UnexpectedResponse), or answers
\* with another error status (UnexpectedResponse too), or the call fails
\* otherwise (connection refused, timeout: another Exception)
DeleteOutcomes ==
    IF collection
    THEN {"deleted", "unexpected_response_other", "other_exception"}
    ELSE {"not_found", "unexpected_response_other", "other_exception"}

\* initialize_collection(): both except clauses swallow the failure of the
\* deletion, then create_collection is called; its failure propagates
InitializeCollection ==
    /\ pc = "initialize_collection"
    /\ \E deletion \in DeleteOutcomes :
          LET exists_after == collection /\ deletion # "deleted"
          IN  /\ delete_outcome' = deletion
              /\ net_calls' = net_calls \o <<"delete_collection", "create_collection">>
              /\ \E creation \in (IF exists_after THEN {"error"} ELSE {"created", "error"}) :
                    IF creation = "created"
                    THEN /\ collection' = TRUE
                         /\ raised' = None
                         /\ pc' = "upload_loop"
                    ELSE /\ collection' = exists_after
                         /\ raised' = "create_collection failed"
                         /\ pc' = "upload_raised"
    /\ UNCHANGED <<env, recreate, json_docs, embeddings_client, uploaded, loadVars,
                   fnVars>>

\* one turn of the loop of lines 18-22: add_document_with_text ->
\* add_document -> create_embedding, then client.upsert
AddDocument ==
    /\ pc = "upload_loop"
    /\ uploaded < Len(json_docs)
    /\ IF embeddings_client = None
       THEN /\ raised' = "ValueError: Azure AI Embeddings Client not initialized"
            /\ pc' = "upload_raised"
            /\ UNCHANGED <<net_calls, uploaded>>
       ELSE \E embedding \in {"ok", "error"}, upsert \in {"ok", "error"} :
               IF embedding = "error"
               THEN /\ net_calls' = Append(net_calls, "embeddings.create")
                    /\ raised' = "embeddings.create failed"
                    /\ pc' = "upload_raised"
                    /\ UNCHANGED uploaded
               ELSE IF upsert = "error"
               THEN /\ net_calls' = net_calls \o <<"embeddings.create", "upsert">>
                    /\ raised' = "upsert failed"
                    /\ pc' = "upload_raised"
                    /\ UNCHANGED uploaded
               ELSE /\ net_calls' = net_calls \o <<"embeddings.create", "upsert">>
                    /\ uploaded' = uploaded + 1
                    /\ UNCHANGED <<pc, raised>>
    /\ UNCHANGED <<env, recreate, json_docs, embeddings_client, collection,
                   delete_outcome, loadVars, fnVars>>

\* line 24: every document was uploaded
FinishUpload ==
    /\ pc = "upload_loop"
    /\ uploaded = Len(json_docs)
    /\ pc' = "upload_done"
    /\ UNCHANGED <<uploadVars, loadVars, fnVars>>

NextUpload == Construct \/ InitializeCollection \/ AddDocument \/ FinishUpload

SpecUpload == InitUploadRun /\ [][NextUpload]_vars

CredentialsMissing == Falsy(env.endpoint) \/ Falsy(env.api_key)

\* C4: with an embedding credential missing the upload run raises at once:
\* it issues no network call (the collection is neither deleted nor created)
\* and never ends normally.
C4_MissingCredentialsAbortBeforeNetwork ==
    (pc # "upload_start" /\ CredentialsMissing) =>
        /\ net_calls = <<>>
        /\ pc # "upload_done"

\* C10: in initialize_collection a deletion that fails because the
\* collection does not exist is followed by the creation, and a deletion
\* that fails for any other reason is raised to the caller and not followed
\* by create_collection.
C10_OtherDeletionFailureSurfaces ==
    /\ delete_outcome = "not_found" =>
          /\ "create_collection" \in Range(net_calls)
          /\ raised # None \/ collection
    /\ delete_outcome \in {"unexpected_response_other", "other_exception"} =>
          /\ raised # None
          /\ "create_collection" \notin Range(net_calls)

-----------------------------------------------------------------------------
(* The categories identify_file_type can return, checked under SpecClassify *)

\* the entry of FILE_TYPE_PATTERNS that declares a category
IndexOf(type) ==
    CHOOSE i \in 1..Len(FILE_TYPE_PATTERNS) : FILE_TYPE_PATTERNS[i].type = type

\* C13: identify_file_type never returns 'test' or 'migration': a name that a
\* pattern of one of these two categories matches is also matched by '*.cs'
\* of the earlier 'csharp' category and is classified 'csharp'; every result
\* is one of csharp, project, config, documentation, web, other.
C13_TestAndMigrationShadowed ==
    pc = "classify_done" =>
        /\ file_type_out \in {"csharp", "project", "config", "documentation",
                              "web", "other"}
        /\ \A type \in {"test", "migration"} :
              CategoryMatches(IndexOf(type), file_name) =>
                  /\ IndexOf("csharp") < IndexOf(type)
                  /\ CategoryMatches(IndexOf("csharp"), file_name)
                  /\ file_type_out = "csharp"

\* a name that a 'test' pattern and a name that a 'migration' pattern matches
C13_Witness ==
    /\ pc = "classify_done"
    /\ file_type_out = "csharp"
    /\ CategoryMatches(IndexOf("migration"), file_name)
    /\ ~CategoryMatches(IndexOf("test"), file_name)

-----------------------------------------------------------------------------
(* export_documents *)

MaxExport == 2

\* json.encoder with ensure_ascii=False: the escapes of a string's characters
RECURSIVE json_escape(_)
json_escape(text) ==
    IF text = "" THEN ""
    ELSE (CASE Head(text) = "\"" -> "\\\""
            [] Head(text) = "\\" -> "\\\\"
            [] Head(text) = "\n" -> "\\n"
            [] Head(text) = "\t" -> "\\t"
            [] OTHER -> Head(text))
         \o json_escape(Tail(text))

json_string(text) == "\"" \o json_escape(text) \o "\""

\* the members of one document: 'page_content', then 'metadata' with the
\* fields of DocumentMetadata in their declaration order (asdict)
metadata_members(metadata) ==
    << "\"source\": " \o json_string(metadata.source),
       "\"file_type\": " \o json_string(metadata.file_type),
       "\"token_count\": " \o ToString(metadata.token_count),
       "\"chunk_index\": " \o ToString(metadata.chunk_index),
       "\"total_chunks\": " \o ToString(metadata.total_chunks) >>

\* json.dumps(doc_data, ensure_ascii=False): one line, ', ' and ': '
json_dumps(doc) ==
    "{\"page_content\": " \o json_string(doc.page_content)
    \o ", \"metadata\": {" \o Join(", ", metadata_members(doc.metadata)) \o "}}"

\* one element of json.dump(doc_data, f, indent=2, ensure_ascii=False)
json_dump_element(doc) ==
    "  {\n    \"page_content\": " \o json_string(doc.page_content)
    \o ",\n    \"metadata\": {\n      "
    \o Join(",\n      ", metadata_members(doc.metadata))
    \o "\n    }\n  }"

\* json.dump(doc_data, f, indent=2, ensure_ascii=False) of the list
json_dump_indent(docs) ==
    IF docs = <<>> THEN "[]"
    ELSE "[\n"
         \o Join(",\n", [i \in 1..Len(docs) |-> json_dump_element(docs[i])])
         \o "\n]"

\* lines 283-287 and 295-298: the dict written for a document
doc_data(doc) == [page_content |-> doc.page_content, metadata |-> doc.metadata]

\* lines 293-299: every document's json.dumps followed by '\\n', which is
\* the two characters backslash and n
RECURSIVE write_jsonl(_)
write_jsonl(docs) ==
    IF docs = <<>> THEN ""
    ELSE json_dumps(doc_data(Head(docs))) \o "\\n" \o write_jsonl(Tail(docs))

\* export_documents(documents, output_path, format): the text of the file
\* at output_path afterwards (None: no file is written)
export_documents(documents, format) ==
    IF format = "json"
    THEN json_dump_indent([i \in 1..Len(documents) |-> doc_data(documents[i])])
    ELSE IF format = "jsonl"
    THEN write_jsonl(documents)
    ELSE None

\* the chunk-documents the exports are tried on
ExportMetadata ==
    { [source |-> "CleanArchitecture-main\\src\\Foo.cs", file_type |-> "csharp",
       token_count |-> 4, chunk_index |-> 1, total_chunks |-> 2],
      [source |-> "/repo/README.md", file_type |-> "documentation",
       token_count |-> 1, chunk_index |-> 0, total_chunks |-> 1] }

ExportContents ==
    { "[File: README.md | Type: documentation]\\n\\nline1\nline2",
      "say \"hi\"",
      "" }

ExportUniverse ==
    { [page_content |-> content, metadata |-> metadata] :
        content \in ExportContents, metadata \in ExportMetadata }

RECURSIVE SeqsUpTo(_, _)
SeqsUpTo(S, n) ==
    IF n = 0 THEN {<<>>}
    ELSE SeqsUpTo(S, n - 1)
         \cup {Append(seq, x) : seq \in {q \in SeqsUpTo(S, n - 1) : Len(q) = n - 1}, x \in S}

InitExport ==
    /\ pc = "export"
    /\ export_docs \in SeqsUpTo(ExportUniverse, MaxExport)
    /\ file_json = None /\ file_jsonl = None
    /\ file_name = None /\ file_type_out = None
    /\ content_in = None /\ metadata_in = None /\ metadata_after = None
    /\ prefixed_out = None
    /\ InitSplitIdle /\ InitLoadIdle /\ InitUpload

\* export_documents(documents, path, format='json')
ExportJson ==
    /\ pc = "export"
    /\ file_json = None
    /\ file_json' = export_documents(export_docs, "json")
    /\ UNCHANGED <<pc, export_docs, file_jsonl, file_name, file_type_out, content_in,
                   metadata_in, metadata_after, prefixed_out, splitVars, loadVars,
                   uploadVars>>

\* export_documents(documents, path, format='jsonl')
ExportJsonl ==
    /\ pc = "export"
    /\ file_jsonl = None
    /\ file_jsonl' = export_documents(export_docs, "jsonl")
    /\ UNCHANGED <<pc, export_docs, file_json, file_name, file_type_out, content_in,
                   metadata_in, metadata_after, prefixed_out, splitVars, loadVars,
                   uploadVars>>

NextExport == ExportJson \/ ExportJsonl

SpecExport == InitExport /\ [][NextExport]_vars

-----------------------------------------------------------------------------
(* Reading an export back, checked under SpecExport *)

JsonWhitespace == {" ", "\n", "\t", "\r"}

\* the tokens of the JSON text of one record
DocTokens(doc) ==
    << "{", "\"page_content\"", ":", json_string(doc.page_content), ",",
       "\"metadata\"", ":", "{",
       "\"source\"", ":", json_string(doc.metadata.source), ",",
       "\"file_type\"", ":", json_string(doc.metadata.file_type), ",",
       "\"token_count\"", ":", ToString(doc.metadata.token_count), ",",
       "\"chunk_index\"", ":", ToString(doc.metadata.chunk_index), ",",
       "\"total_chunks\"", ":", ToString(doc.metadata.total_chunks),
       "}", "}" >>

\* the tokens of the JSON text of an array of records
RECURSIVE ElementTokens(_)
ElementTokens(docs) ==
    IF docs = <<>> THEN <<>>
    ELSE DocTokens(Head(docs))
         \o (IF Len(docs) > 1 THEN <<",">> ELSE <<>>)
         \o ElementTokens(Tail(docs))

ListTokens(docs) == <<"[">> \o ElementTokens(docs) \o <<"]">>

RECURSIVE SkipWhitespace(_)
SkipWhitespace(text) ==
    IF text # "" /\ Head(text) \in JsonWhitespace THEN SkipWhitespace(Tail(text))
    ELSE text

\* the JSON decoder on `text`: it is these tokens, with whitespace allowed
\* between them and nothing else before, between or after them
RECURSIVE Denotes(_, _)
Denotes(text, tokens) ==
    LET rest == SkipWhitespace(text)
    IN  IF tokens = <<>> THEN rest = ""
        ELSE /\ Len(Head(tokens)) <= Len(rest)
             /\ SubSeq(rest, 1, Len(Head(tokens))) = Head(tokens)
             /\ Denotes(SubSeq(rest, Len(Head(tokens)) + 1, Len(rest)), Tail(tokens))

JSONDecodeError == [error |-> "JSONDecodeError"]

\* json.loads(text) of one record: the document the text denotes, or the
\* error when the text is no JSON value (for instance for extra data)
json_loads(text) ==
    LET denoted == {d \in ExportUniverse : Denotes(text, DocTokens(d))}
    IN  IF denoted = {} THEN JSONDecodeError ELSE CHOOSE d \in denoted : TRUE

\* json.load(f) of a file holding an array of records
json_load(text) ==
    LET denoted == {docs \in SeqsUpTo(ExportUniverse, MaxExport) :
                       Denotes(text, ListTokens(docs))}
    IN  IF denoted = {} THEN <<JSONDecodeError>> ELSE CHOOSE docs \in denoted : TRUE

\* the lines of a text file, as iterating over the open file yields them
RECURSIVE ReadLines(_)
ReadLines(text) ==
    IF text = "" THEN <<>>
    ELSE IF \E i \in 1..Len(text) : SubSeq(text, i, i) = "\n"
         THEN LET i == CHOOSE j \in 1..Len(text) :
                          /\ SubSeq(text, j, j) = "\n"
                          /\ \A k \in 1..(j - 1) : SubSeq(text, k, k) # "\n"
              IN  <<SubSeq(text, 1, i)>> \o ReadLines(SubSeq(text, i + 1, Len(text)))
         ELSE <<text>>

\* the records read from a 'jsonl' file, one json.loads per line
read_jsonl(text) == [i \in 1..Len(ReadLines(text)) |-> json_loads(ReadLines(text)[i])]

\* C11: the 'jsonl' export holds one {page_content, metadata} object per
\* line, and read back line by line it yields the records that reading the
\* 'json' export of the same collection yields.
C11_JsonlSameRecordsAsJson ==
    /\ file_jsonl # None =>
          /\ Len(ReadLines(file_jsonl)) = Len(export_docs)
          /\ read_jsonl(file_jsonl) = [i \in 1..Len(export_docs) |-> doc_data(export_docs[i])]
    /\ (file_jsonl # None /\ file_json # None) =>
          read_jsonl(file_jsonl) = json_load(file_json)

-----------------------------------------------------------------------------
\* chunk_content: RecursiveCharacterTextSplitter(chunk_size=max_tokens,
\* chunk_overlap=overlap_tokens, length_function=len,
\* separators=["\n\n", "\n", " ", ""]).split_text(content), with the splitter's
\* other parameters at their defaults (keep_separator=True,
\* strip_whitespace=True, is_separator_regex=False)

MaxText == 4

DefaultMaxTokens == 1000
DefaultOverlapTokens == 100

separators == << "\n\n", "\n", " ", "" >>

Whitespace == {" ", "\n", "\t"}

\* str.strip()
RECURSIVE lstrip(_)
lstrip(text) ==
    IF text # "" /\ Head(text) \in Whitespace THEN lstrip(Tail(text)) ELSE text

RECURSIVE rstrip(_)
rstrip(text) ==
    IF text # "" /\ SubSeq(text, Len(text), Len(text)) \in Whitespace
    THEN rstrip(SubSeq(text, 1, Len(text) - 1))
    ELSE text

strip(text) == rstrip(lstrip(text))

\* re.search(re.escape(separator), text): the first position at or after
\* `from` where separator occurs in text, 0 when there is none
search(separator, text, from) ==
    LET hits == {i \in from..(Len(text) - Len(separator) + 1) :
                    SubSeq(text, i, i + Len(separator) - 1) = separator}
    IN IF hits = {} THEN 0 ELSE CHOOSE i \in hits : \A j \in hits : i <= j

RECURSIVE list(_)
list(text) == IF text = "" THEN <<>> ELSE <<Head(text)>> \o list(Tail(text))

\* the pieces that follow the first one: each starts with the separator
RECURSIVE kept_splits(_, _)
kept_splits(text, separator) ==
    LET j == search(separator, text, Len(separator) + 1)
    IN IF j = 0 THEN <<text>>
       ELSE <<SubSeq(text, 1, j - 1)>>
            \o kept_splits(SubSeq(text, j, Len(text)), separator)

\* _split_text_with_regex(text, separator, keep_separator=True): the separator
\* stays at the start of the piece that follows it; empty pieces are dropped
split_text_with_regex(text, separator) ==
    LET i == search(separator, text, 1)
        splits == IF separator = "" THEN list(text)
                  ELSE IF i = 0 THEN <<text>>
                  ELSE <<SubSeq(text, 1, i - 1)>>
                       \o kept_splits(SubSeq(text, i, Len(text)), separator)
    IN SelectSeq(splits, LAMBDA s : s # "")

\* TextSplitter._join_docs: join, strip, None for an empty result; the result
\* is given as the list of documents to append (none or one)
join_docs(docs, separator) ==
    LET text == strip(Join(separator, docs))
    IN IF text = "" THEN <<>> ELSE <<text>>

\* the joined length of current_doc, as `total` keeps it
total_of(current_doc, separator) == Len(Join(separator, current_doc))

\* the while loop of _merge_splits: drop leading pieces of current_doc until
\* at most chunk_overlap is kept and the next piece fits
RECURSIVE pop_overlap(_, _, _, _, _)
pop_overlap(current_doc, _len, separator, chunk_size, chunk_overlap) ==
    LET total == total_of(current_doc, separator)
        sep_len == IF Len(current_doc) > 0 THEN Len(separator) ELSE 0
    IN IF total > chunk_overlap
          \/ (total + _len + sep_len > chunk_size /\ total > 0)
       THEN pop_overlap(Tail(current_doc), _len, separator, chunk_size, chunk_overlap)
       ELSE current_doc

\* TextSplitter._merge_splits: the loop over splits, from the state
\* (docs, current_doc)
RECURSIVE merge_from(_, _, _, _, _, _)
merge_from(splits, docs, current_doc, separator, chunk_size, chunk_overlap) ==
    IF splits = <<>> THEN docs \o join_docs(current_doc, separator)
    ELSE LET d == Head(splits)
             total == total_of(current_doc, separator)
             sep_len == IF Len(current_doc) > 0 THEN Len(separator) ELSE 0
             closes == total + Len(d) + sep_len > chunk_size /\ Len(current_doc) > 0
             docs2 == IF closes THEN docs \o join_docs(current_doc, separator) ELSE docs
             kept == IF closes
                     THEN pop_overlap(current_doc, Len(d), separator, chunk_size, chunk_overlap)
                     ELSE current_doc
         IN merge_from(Tail(splits), docs2, Append(kept, d), separator,
                       chunk_size, chunk_overlap)

merge_splits(splits, separator, chunk_size, chunk_overlap) ==
    merge_from(splits, <<>>, <<>>, separator, chunk_size, chunk_overlap)

\* the position in `seps` of the separator _split_text chooses: the first that
\* is "" or occurs in text, else the last
choose_separator(text, seps) ==
    LET found == {i \in 1..Len(seps) : seps[i] = "" \/ search(seps[i], text, 1) # 0}
    IN IF found = {} THEN Len(seps) ELSE CHOOSE i \in found : \A j \in found : i <= j

\* RecursiveCharacterTextSplitter._split_text: the loop over splits, from the
\* state (final_chunks, _good_splits); the merge separator is "" because
\* keep_separator is True
RECURSIVE split_from(_, _, _, _, _, _)
RECURSIVE recursive_split_text(_, _, _, _)
split_from(splits, final_chunks, good_splits, new_separators, chunk_size, chunk_overlap) ==
    IF splits = <<>>
    THEN final_chunks \o merge_splits(good_splits, "", chunk_size, chunk_overlap)
    ELSE LET s == Head(splits)
         IN IF Len(s) < chunk_size
            THEN split_from(Tail(splits), final_chunks, Append(good_splits, s),
                            new_separators, chunk_size, chunk_overlap)
            ELSE split_from(Tail(splits),
                            final_chunks
                              \o merge_splits(good_splits, "", chunk_size, chunk_overlap)
                              \o (IF new_separators = <<>> THEN <<s>>
                                  ELSE recursive_split_text(s, new_separators,
                                                            chunk_size, chunk_overlap)),
                            <<>>, new_separators, chunk_size, chunk_overlap)

recursive_split_text(text, seps, chunk_size, chunk_overlap) ==
    LET i == choose_separator(text, seps)
        separator == seps[i]
        new_separators == IF separator = "" \/ search(separator, text, 1) = 0
                          THEN <<>> ELSE SubSeq(seps, i + 1, Len(seps))
    IN split_from(split_text_with_regex(text, separator), <<>>, <<>>,
                  new_separators, chunk_size, chunk_overlap)

\* chunk_content(content, max_tokens, overlap_tokens), for arguments the
\* splitter's constructor accepts
chunk_content_sized(content, chunk_size, chunk_overlap) ==
    recursive_split_text(content, separators, chunk_size, chunk_overlap)

\* TextSplitter.__init__ raises ValueError for these arguments
ValueError(chunk_size, chunk_overlap) == chunk_overlap > chunk_size

Alphabet == {"a", "b", " ", "\n"}

RECURSIVE TextsUpTo(_)
TextsUpTo(n) ==
    IF n = 0 THEN {""}
    ELSE TextsUpTo(n - 1)
         \cup {t \o c : t \in {u \in TextsUpTo(n - 1) : Len(u) = n - 1}, c \in Alphabet}

\* (max_tokens, overlap_tokens): the defaults, small sizes that make a text of
\* MaxText characters split, overlap = max_size, and one pair the constructor
\* rejects
SizeArgs ==
    { <<DefaultMaxTokens, DefaultOverlapTokens>>,
      <<3, 0>>, <<3, 1>>, <<2, 1>>, <<3, 2>>, <<2, 2>>, <<1, 2>> }

InitSplit ==
    /\ pc = "split"
    /\ chunk_text_in \in TextsUpTo(MaxText)
    /\ \E args \in SizeArgs : max_tokens = args[1] /\ overlap_tokens = args[2]
    /\ chunks_out = <<>>
    /\ file_name = None /\ file_type_out = None
    /\ content_in = None /\ metadata_in = None /\ metadata_after = None
    /\ prefixed_out = None
    /\ InitExportIdle /\ InitLoadIdle /\ InitUpload

\* chunk_content runs
SplitText ==
    /\ pc = "split"
    /\ IF ValueError(max_tokens, overlap_tokens)
       THEN pc' = "split_raised" /\ chunks_out' = <<>>
       ELSE /\ pc' = "split_done"
            /\ chunks_out' = chunk_content_sized(chunk_text_in, max_tokens, overlap_tokens)
    /\ UNCHANGED <<chunk_text_in, max_tokens, overlap_tokens, file_name,
                   file_type_out, content_in, metadata_in, metadata_after,
                   prefixed_out, exportVars, loadVars, uploadVars>>

NextSplit == SplitText

SpecSplit == InitSplit /\ [][NextSplit]_vars

\* the text rebuilt from chunks: each chunk after the first loses a prefix
\* that the end of the previous chunk holds
RECURSIVE Reconstructs(_, _, _)
Reconstructs(text, previous, chunks) ==
    IF chunks = <<>> THEN text = ""
    ELSE LET c == Head(chunks)
             m == IF Len(previous) < Len(c) THEN Len(previous) ELSE Len(c)
         IN \E k \in 0..m :
               /\ SubSeq(c, 1, k) = SubSeq(previous, Len(previous) - k + 1, Len(previous))
               /\ Len(c) - k <= Len(text)
               /\ SubSeq(text, 1, Len(c) - k) = SubSeq(c, k + 1, Len(c))
               /\ Reconstructs(SubSeq(text, Len(c) - k + 1, Len(text)), c, Tail(chunks))

\* C12: for overlap < max_size the chunks chunk_content returns, with each
\* chunk's prefix shared with the end of the previous chunk removed, concatenate
\* to the original text exactly; for empty text the sequence is empty.
C12_LosslessReconstruction ==
    (pc = "split_done" /\ overlap_tokens < max_tokens) =>
        /\ Reconstructs(chunk_text_in, "", chunks_out)
        /\ chunk_text_in = "" => chunks_out = <<>>

=============================================================================
